---- MODULE Spec2Model ----
(***************************************************************************)
(* A model of the Instagram browser session client (instagram_tool.py) and *)
(* of the Kortix tool adapter that wraps it (kortix_integration_template). *)
(*                                                                         *)
(* One call of a method is one action.  The page the browser shows and the *)
(* faults of the browser library are inputs of the call: `dom` is the set  *)
(* of selectors for which query_selector returns an element, and `f` is    *)
(* the position of the one browser operation of the call that raises       *)
(* (0: none raises).  Every call records the browser operations it made,   *)
(* in order, in last.tr, and how it ended in last.outcome.                 *)
(***************************************************************************)
EXTENDS Integers, Sequences, FiniteSets, TLC

\* ---------------------------------------------------------------- bounds
\* Browser processes launched in one behaviour.
MaxLaunch == 2
\* Positions at which a browser operation of one call may raise.
MaxOps == 22
\* Length of the caption that is longer than the preview.
LongCaption == 101

\* ------------------------------------------------------ program constants
\* followers[:10]
PreviewFollowers == 10
\* post_caption[:100]
PreviewCaption == 100

VARIABLES
    playwright,        \* Client.playwright: FALSE is None
    browser,           \* Client.browser: 0 is None, else the id of a browser process
    page,              \* Client.page: 0 is None, else the id of the browser owning the page
    instagram_client,  \* adapter.instagram_client: FALSE is None, TRUE refers to the Client
    inited,            \* history: init has completed successfully on this Client object
    live,              \* browser processes launched and not closed
    launched,          \* number of browser processes launched so far
    last               \* the call that has just completed (op = "none": no call)

vars == <<playwright, browser, page, instagram_client, inited, live, launched,
          last>>

\* ------------------------------------------------------------- selectors
SelUsername == "input[name=username]"
SelPassword == "input[name=password]"
SelSubmit   == "button[type=submit]"
SelSaveInfo == "button:has-text(Save Info)"
SelNotNowButton == "button:has-text(Not Now)"
SelNotNowDiv    == "div:has-text(Not Now)"
SelNotNowXButton == "//button[contains(text(), Not Now)]"
SelNotNowXDiv    == "//div[contains(text(), Not Now)]"
SelMessage == "button:has-text(Message), div:has-text(Message)"
SelFile    == "input[type=file]"
SelTextarea == "textarea[placeholder*=Message]"
SelTextbox  == "div[role=textbox]"
SelEditable == "div[contenteditable=true]"
SelSend    == "button:has-text(Send), div:has-text(Send)"

not_now_selectors == <<SelNotNowButton, SelNotNowDiv, SelNotNowXButton, SelNotNowXDiv>>
message_input_selectors == <<SelTextarea, SelTextbox, SelEditable>>

LoginSelectors == {SelUsername, SelPassword, SelSubmit, SelSaveInfo, SelNotNowButton}
PopupSelectors == {not_now_selectors[i] : i \in 1..Len(not_now_selectors)}
DMSelectors == {SelMessage, SelFile, SelSend} \cup PopupSelectors
                 \cup {message_input_selectors[i] : i \in 1..Len(message_input_selectors)}

LoginUrl == "https://www.instagram.com/accounts/login/"

\* ------------------------------------------------- values and truthiness
\* Python's None and "" are both falsy.
Truthy(v) == v \notin {"None", ""}
\* a or b
PyOr(a, b) == IF Truthy(a) THEN a ELSE b

\* ------------------------------------------- execution of browser operations
\* An execution: the operations made so far (tr); whether it runs, an
\* exception is in flight (st = "exc", its text in err) or an `if element:`
\* test has failed and the rest of its branch is skipped (st = "skip"); the
\* element the last query_selector returned (el; "None" when it found
\* nothing) and the selectors that have been found (found).
Start == [tr |-> <<>>, st |-> "run", err |-> "", el |-> "None", found |-> {}]

BrowserError == "playwright error"

\* One awaited browser operation: not made unless the execution runs, and
\* raising when it is the f-th operation of the call.
Op(x, kind, target, value, f) ==
    IF x.st # "run" THEN x
    ELSE IF Len(x.tr) + 1 = f
         THEN [x EXCEPT !.tr = Append(@, <<kind, target, value, "raised">>),
                        !.st = "exc", !.err = BrowserError]
         ELSE [x EXCEPT !.tr = Append(@, <<kind, target, value, "ok">>)]

\* element = await self.page.query_selector(selector)
Query(x, sel, dom, f) ==
    IF x.st # "run" THEN x
    ELSE IF Len(x.tr) + 1 = f THEN Op(x, "query", sel, "", f)
    ELSE IF sel \in dom
         THEN [Op(x, "query", sel, "found", f) EXCEPT !.el = sel, !.found = @ \cup {sel}]
         ELSE [Op(x, "query", sel, "None", f) EXCEPT !.el = "None"]

\* await element.click(), await element.fill(value), on the element just found
ClickEl(x, f) == Op(x, "click", x.el, "", f)
FillEl(x, value, f) == Op(x, "fill", x.el, value, f)
Sleep(x, seconds, f) == Op(x, "sleep", seconds, "", f)

\* if element: await element.click(); await asyncio.sleep(seconds)
ClickIfFound(x, seconds, f) ==
    IF x.st = "run" /\ x.el # "None" THEN Sleep(ClickEl(x, f), seconds, f) ELSE x

\* raise ValueError(msg)
Raise(x, msg) == IF x.st # "run" THEN x ELSE [x EXCEPT !.st = "exc", !.err = msg]

\* if not element: raise ValueError(msg)
Require(x, msg) == IF x.st = "run" /\ x.el = "None" THEN Raise(x, msg) ELSE x

\* if element: ... (the branch is skipped when the element was not found)
IfFound(x) == IF x.st = "run" /\ x.el = "None" THEN [x EXCEPT !.st = "skip"] ELSE x

\* except Exception as e: print(...)   (the exception is not re-raised)
Swallow(x) == IF x.st = "exc" THEN [x EXCEPT !.st = "run", !.err = ""] ELSE x

\* ----------------------------------------------- _handle_security_checks
\* Mutant: the handler does nothing.
HandleSecurityChecksMutant(x, pg, dom, f) == x

HandleSecurityChecks(x, pg, dom, f) ==
    IF x.st # "run" \/ pg = 0 THEN x
    ELSE Swallow(ClickIfFound(
                   Query(ClickIfFound(Query(x, SelSaveInfo, dom, f), "2", f),
                         SelNotNowButton, dom, f),
                   "2", f))

\* -------------------------------------------- _handle_notification_popup
\* Mutant: no return after the click, the loop goes on to the next selector.
RECURSIVE NotNowLoopMutant(_, _, _, _)
NotNowLoopMutant(x, i, dom, f) ==
    IF x.st # "run" \/ i > Len(not_now_selectors) THEN x
    ELSE NotNowLoopMutant(
           ClickIfFound(Query(x, not_now_selectors[i], dom, f), "1.5", f),
           i + 1, dom, f)

\* for selector in not_now_selectors: ... , from the i-th selector on
RECURSIVE NotNowLoop(_, _, _, _)
\* if not_now_button: click, sleep, return    (q: after the i-th query)
NotNowStep(q, i, dom, f) ==
    IF q.st # "run" THEN q
    ELSE IF q.el # "None" THEN Sleep(ClickEl(q, f), "1.5", f)
    ELSE NotNowLoop(q, i + 1, dom, f)

NotNowLoop(x, i, dom, f) ==
    IF x.st # "run" \/ i > Len(not_now_selectors) THEN x
    ELSE NotNowStep(Query(x, not_now_selectors[i], dom, f), i, dom, f)

HandleNotificationPopup(x, pg, dom, f) ==
    IF x.st # "run" \/ pg = 0 THEN x
    ELSE Swallow(NotNowLoop(x, 1, dom, f))

\* Mutant: the precondition check is left out.
PageMissingMutant(pg) == FALSE

\* if not self.page
PageMissing(pg) == pg = 0

\* ------------------------------------------------- results of a method call
Returned(x, value) == [outcome |-> "return", ret |-> value, err |-> "", tr |-> x.tr]
Raised(x) == [outcome |-> "raise", ret |-> "None", err |-> x.err, tr |-> x.tr]

\* ------------------------------------------------------------------ login
\* Mutant: "and" for "or".
CredentialsMissingMutant(u, p) == ~Truthy(u) /\ ~Truthy(p)

\* if not username or not password
CredentialsMissing(u, p) == ~Truthy(u) \/ ~Truthy(p)

\* Mutant: the exception is re-raised, as send_direct_message does.
LoginExceptMutant(x) == Raised(x)

\* except Exception as e: print(...); return False
LoginExcept(x) == Returned(x, "False")

\* if username_input and password_input:
IfForm(x) ==
    IF x.st = "run" /\ ~({SelUsername, SelPassword} \subseteq x.found)
    THEN [x EXCEPT !.st = "skip"] ELSE x

\* How the try block of login ends: return True at the end of the inner
\* branch, return False when a branch was skipped, the except clause.
LoginEnd(x) ==
    IF x.st = "exc" THEN LoginExcept(x)
    ELSE IF x.st = "skip" THEN Returned(x, "False")
    ELSE Returned(x, "True")

\* The try block of login.
LoginBody(pg, u, p, dom, f) ==
    LET form == IfForm(Query(Query(Sleep(Op(Start, "goto", LoginUrl, "networkidle", f),
                                         "3", f),
                                   SelUsername, dom, f),
                             SelPassword, dom, f))
        filled == Sleep(Op(Op(form, "fill", SelUsername, u, f),
                           "fill", SelPassword, p, f),
                        "1", f)
        submit == IfFound(Query(filled, SelSubmit, dom, f))
    IN  LoginEnd(HandleSecurityChecks(Sleep(ClickEl(submit, f), "5", f), pg, dom, f))

Login(pg, username, password, envU, envP, dom, f) ==
    IF PageMissing(pg) THEN Raised(Raise(Start, "Page not initialized"))
    ELSE IF CredentialsMissing(PyOr(username, envU), PyOr(password, envP))
         THEN Raised(Raise(Start, "Instagram credentials not provided"))
         ELSE LoginBody(pg, PyOr(username, envU), PyOr(password, envP), dom, f)

\* ---------------------------------------------------- send_direct_message
\* Mutant: only the first selector is tried.
MessageInputLoopMutant(x, i, dom, f) ==
    IF x.st # "run" THEN x ELSE Query(x, message_input_selectors[i], dom, f)

\* for selector in message_input_selectors: ... break, from the i-th on
RECURSIVE MessageInputLoop(_, _, _, _)
\* if message_input: break    (q: after the i-th query)
MessageInputStep(q, i, dom, f) ==
    IF q.st # "run" \/ q.el # "None" THEN q
    ELSE MessageInputLoop(q, i + 1, dom, f)

MessageInputLoop(x, i, dom, f) ==
    IF x.st # "run" \/ i > Len(message_input_selectors) THEN x
    ELSE MessageInputStep(Query(x, message_input_selectors[i], dom, f), i, dom, f)

\* if file_input: await file_input.set_input_files(media_path); sleep(2)
SetFilesIfFound(x, media_path, f) ==
    IF x.st = "run" /\ x.el # "None"
    THEN Sleep(Op(x, "set_input_files", x.el, media_path, f), "2", f)
    ELSE x

\* Mutant: a missing file input is an error, as a missing compose control is.
AttachMutant(x, media_path, dom, f) ==
    IF Truthy(media_path)
    THEN SetFilesIfFound(Require(Query(x, SelFile, dom, f), "File input not found"),
                         media_path, f)
    ELSE x

\* if media_path: ...
Attach(x, media_path, dom, f) ==
    IF Truthy(media_path) THEN SetFilesIfFound(Query(x, SelFile, dom, f), media_path, f)
    ELSE x

\* message_input = None
NoElement(x) == [x EXCEPT !.el = "None"]

\* except Exception as e: print(...); raise
SendEnd(x) == IF x.st = "exc" THEN Raised(x) ELSE Returned(x, "None")

SendDirectMessage(pg, username, message, media_path, dom, f) ==
    IF PageMissing(pg) THEN Raised(Raise(Start, "Page not initialized"))
    ELSE
    LET button == Require(Query(Sleep(Op(Start, "goto", username, "networkidle", f),
                                      "3", f),
                                SelMessage, dom, f),
                          "Message button not found")
        popup == HandleNotificationPopup(Sleep(ClickEl(button, f), "2", f), pg, dom, f)
        input == Require(MessageInputLoop(NoElement(Attach(popup, media_path, dom, f)),
                                          1, dom, f),
                         "Message input not found")
        send == Require(Query(Sleep(FillEl(input, message, f), "2", f), SelSend, dom, f),
                        "Send button not found")
    IN  SendEnd(ClickEl(send, f))

\* ------------------------------------------------------------------ stubs
InteractWithPosts(pg, max_posts) ==
    IF PageMissing(pg) THEN Raised(Raise(Start, "Page not initialized"))
    ELSE Returned(Start, "None")

\* the list scrape_followers returns
NoFollowers == <<>>

\* Mutant: the stub reports that it is not implemented.
ScrapeFollowersMutant(pg, target_account, max_followers) ==
    IF PageMissing(pg) THEN Raised(Raise(Start, "Page not initialized"))
    ELSE Raised(Raise(Start, "NotImplementedError"))

ScrapeFollowers(pg, target_account, max_followers) ==
    IF PageMissing(pg) THEN Raised(Raise(Start, "Page not initialized"))
    ELSE Returned(Start, NoFollowers)

PlaceholderComment == "Great post!"

GenerateComment(pg, post_caption) == Returned(Start, PlaceholderComment)

\* ------------------------------------------------------- the Client object
\* The Client's fields, the adapter's reference to it and the browser
\* processes, as one record that the methods transform.
Cur == [playwright |-> playwright, browser |-> browser, page |-> page,
        instagram_client |-> instagram_client, inited |-> inited,
        live |-> live, launched |-> launched]

Becomes(c) ==
    /\ playwright' = c.playwright
    /\ browser' = c.browser
    /\ page' = c.page
    /\ instagram_client' = c.instagram_client
    /\ inited' = c.inited
    /\ live' = c.live
    /\ launched' = c.launched

\* Client.__init__
NewClient(c) == [c EXCEPT !.playwright = FALSE, !.browser = 0, !.page = 0,
                          !.inited = FALSE]

\* The awaited call of init that raises ("none": init completes).
InitFaults == {"none", "start", "launch", "new_context", "new_page"}

\* Mutant: init closes the browser the Client holds before it launches another.
InitClientMutant(c, fault) ==
    LET id == c.launched + 1
        started == [c EXCEPT !.playwright = TRUE]
        launch == [started EXCEPT !.browser = id, !.live = (@ \ {c.browser}) \cup {id},
                                  !.launched = id]
        paged == [launch EXCEPT !.page = id, !.inited = TRUE]
    IN  CASE fault = "start" -> [c |-> c, ok |-> FALSE, err |-> BrowserError]
          [] fault = "launch" -> [c |-> started, ok |-> FALSE, err |-> BrowserError]
          [] fault \in {"new_context", "new_page"} ->
                [c |-> launch, ok |-> FALSE, err |-> BrowserError]
          [] OTHER -> [c |-> paged, ok |-> TRUE, err |-> ""]

\* init: each field is assigned when the awaited call before it has returned.
InitClient(c, fault) ==
    LET id == c.launched + 1
        started == [c EXCEPT !.playwright = TRUE]
        launch == [started EXCEPT !.browser = id, !.live = @ \cup {id},
                                  !.launched = id]
        paged == [launch EXCEPT !.page = id, !.inited = TRUE]
    IN  CASE fault = "start" -> [c |-> c, ok |-> FALSE, err |-> BrowserError]
          [] fault = "launch" -> [c |-> started, ok |-> FALSE, err |-> BrowserError]
          [] fault \in {"new_context", "new_page"} ->
                [c |-> launch, ok |-> FALSE, err |-> BrowserError]
          [] OTHER -> [c |-> paged, ok |-> TRUE, err |-> ""]

\* Mutant: self.browser is not cleared.
CloseClientMutant(c) ==
    IF c.browser # 0
    THEN [c |-> [c EXCEPT !.page = 0, !.live = @ \ {c.browser}],
          released |-> c.browser]
    ELSE [c |-> c, released |-> 0]

\* close: released is the browser process the call closed (0: none).
CloseClient(c) ==
    IF c.browser # 0
    THEN [c |-> [c EXCEPT !.browser = 0, !.page = 0, !.live = @ \ {c.browser}],
          released |-> c.browser]
    ELSE [c |-> c, released |-> 0]

\* ------------------------------------------------------------- the adapter
\* _ensure_instagram_client; importFails: the import of the Client raises.
EnsureInstagramClient(c, importFails, fault) ==
    IF c.instagram_client THEN [c |-> c, ok |-> TRUE, err |-> "", how |-> "kept"]
    ELSE IF importFails
         THEN [c |-> c, ok |-> FALSE, err |-> "ImportError", how |-> "import_failed"]
         ELSE LET r == InitClient([NewClient(c) EXCEPT !.instagram_client = TRUE], fault)
              IN  [c |-> r.c, ok |-> r.ok, err |-> r.err, how |-> "constructed"]

\* self.success_response(data) and self.fail_response(text)
SuccessEnvelope(data) == [success |-> TRUE, output |-> data]
FailEnvelope(prefix, text) == [success |-> FALSE, output |-> <<prefix, text>>]

\* Mutant: only ValueError is caught.
EnvelopeMutant(raisedErr, prefix, data) ==
    IF raisedErr = ""
    THEN [outcome |-> "return", envelope |-> SuccessEnvelope(data)]
    ELSE IF raisedErr \in {BrowserError, "ImportError", "AttributeError"}
         THEN [outcome |-> "raise", envelope |-> FailEnvelope(prefix, "")]
         ELSE [outcome |-> "return", envelope |-> FailEnvelope(prefix, raisedErr)]

\* try: ... return self.success_response(data)
\* except Exception as e: return self.fail_response(prefix + str(e))
\* raisedErr is "" when the body raised nothing.
Envelope(raisedErr, prefix, data) ==
    IF raisedErr # ""
    THEN [outcome |-> "return", envelope |-> FailEnvelope(prefix, raisedErr)]
    ELSE [outcome |-> "return", envelope |-> SuccessEnvelope(data)]

NoCall == [outcome |-> "none", ret |-> "None", err |-> "", tr |-> <<>>]

\* followers[:n]
Prefix(s, n) == SubSeq(s, 1, IF Len(s) < n THEN Len(s) ELSE n)

\* post_caption[:100] + "..." if len(post_caption) > 100 else post_caption
CaptionPreview(post_caption) ==
    IF Len(post_caption) > PreviewCaption
    THEN Prefix(post_caption, PreviewCaption) \o <<".", ".", ".">>
    ELSE post_caption

AdapterComment == "This looks amazing! Can't wait to try it out"

\* What an adapter action did: how the Client was ensured (e), the Client
\* method it delegated to, if any (call, with the Client as it was then),
\* the adapter's own page operations (atr) and what it gave the runtime (out).
AdapterDone(op, pre, e, delegated, call, atr, out, inp) ==
    [op |-> op, layer |-> "adapter", outcome |-> out.outcome,
     envelope |-> out.envelope, how |-> e.how, ensured |-> e.ok,
     delegated |-> delegated, call |-> call,
     at |-> [instagram_client |-> e.c.instagram_client, page |-> e.c.page,
             inited |-> e.c.inited],
     atr |-> atr, tr |-> call.tr, released |-> 0, pre |-> pre, inp |-> inp,
     prev |-> "none"]

ErrOf(e, call) == IF ~e.ok THEN e.err ELSE IF call.outcome = "raise" THEN call.err ELSE ""

instagram_send_direct_message(c, username, message, media_path, importFails, fault, dom, f) ==
    LET e == EnsureInstagramClient(c, importFails, fault)
        call == IF e.ok
                THEN SendDirectMessage(e.c.page, username, message, media_path, dom, f)
                ELSE NoCall
        out == Envelope(ErrOf(e, call), "Failed to send message: ",
                        [message |-> <<"Message sent successfully to ", username>>,
                         username |-> username, message_content |-> message,
                         media_attached |-> media_path # "None"])
    IN  [c |-> e.c,
         last |-> AdapterDone("instagram_send_direct_message", c, e, e.ok, call, <<>>, out,
                              [username |-> username, message |-> message,
                               media_path |-> media_path])]

instagram_interact_with_posts(c, max_posts, target_account, importFails, fault, f) ==
    LET e == EnsureInstagramClient(c, importFails, fault)
        \* self.instagram_client.page.goto(...): None has no attribute goto
        x0 == IF ~e.ok THEN Raise(Start, e.err)
              ELSE IF ~Truthy(target_account) THEN Start
              ELSE IF e.c.page = 0 THEN Raise(Start, "AttributeError")
              ELSE Op(Op(Start, "goto", target_account, "", f), "sleep", "3", "", f)
        delegated == x0.st = "run"
        call == IF delegated THEN InteractWithPosts(e.c.page, max_posts) ELSE NoCall
        err == IF x0.st = "exc" THEN x0.err ELSE ErrOf(e, call)
        out == Envelope(err, "Failed to interact with posts: ",
                        [message |-> <<"Interacted with ", max_posts, " posts successfully">>,
                         target_account |-> target_account,
                         posts_processed |-> max_posts])
    IN  [c |-> e.c,
         last |-> AdapterDone("instagram_interact_with_posts", c, e, delegated, call,
                              x0.tr, out,
                              [max_posts |-> max_posts, target_account |-> target_account])]

instagram_scrape_followers(c, target_account, max_followers, importFails, fault) ==
    LET e == EnsureInstagramClient(c, importFails, fault)
        call == IF e.ok THEN ScrapeFollowers(e.c.page, target_account, max_followers)
                ELSE NoCall
        followers == IF call.outcome = "return" THEN call.ret ELSE <<>>
        out == Envelope(ErrOf(e, call), "Failed to scrape followers: ",
                        [message |-> <<"Successfully scraped ", Len(followers),
                                       " followers from ", target_account>>,
                         target_account |-> target_account,
                         followers_count |-> Len(followers),
                         followers |-> Prefix(followers, PreviewFollowers),
                         total_available |-> <<Len(followers), "/", max_followers>>])
    IN  [c |-> e.c,
         last |-> AdapterDone("instagram_scrape_followers", c, e, e.ok, call, <<>>, out,
                              [target_account |-> target_account,
                               max_followers |-> max_followers])]

instagram_generate_comment(c, post_caption, tone) ==
    LET e == [c |-> c, ok |-> TRUE, err |-> "", how |-> "unused"]
        out == Envelope("", "Failed to generate comment: ",
                        [message |-> "Comment generated successfully",
                         generated_comment |-> AdapterComment,
                         post_caption_preview |-> CaptionPreview(post_caption),
                         tone |-> tone])
    IN  [c |-> c,
         last |-> AdapterDone("instagram_generate_comment", c, e, FALSE, NoCall, <<>>, out,
                              [post_caption |-> post_caption, tone |-> tone])]

\* adapter close()
AdapterClose(c) ==
    IF c.instagram_client
    THEN LET r == CloseClient(c)
         IN  [c |-> [r.c EXCEPT !.instagram_client = FALSE], released |-> r.released]
    ELSE [c |-> c, released |-> 0]


\* ------------------------------------------------------------------ inputs
Usernames == {"alice"}
Messages == {"hello"}
MediaPaths == {"None", "/media/offer.pdf"}
ArgUsernames == {"None", "", "arg_user"}
ArgPasswords == {"None", "", "arg_pw"}
\* os.getenv('IG_USERNAME'), os.getenv('IG_PASSWORD')
EnvUsernames == {"None", "env_user"}
EnvPasswords == {"None", "env_pw"}
Accounts == {"brand"}
OptAccounts == {"None", "brand"}
Captions == {<<"n", "i", "c", "e">>, [i \in 1..LongCaption |-> "x"]}
Tones == {"casual", "funny"}

\* The pages and faults a call can meet: a call that makes no browser
\* operation (no page) meets none.
Pages(pg, selectors) == IF pg = 0 THEN {{}} ELSE SUBSET selectors
Faults(pg) == IF pg = 0 THEN {0} ELSE 0..MaxOps

\* The file input is looked for only when a media path is given.
DMPageSelectors(media_path) ==
    IF Truthy(media_path) THEN DMSelectors ELSE DMSelectors \ {SelFile}

\* The pages the adapter's calls are tried on: one per way send_direct_message
\* can end (sent, and each required control missing), with and without a
\* "Not Now" dialog.
AdapterPages(pg) ==
    IF pg = 0 THEN {{}}
    ELSE {DMSelectors, DMSelectors \ PopupSelectors, {},
          DMSelectors \ {SelMessage}, DMSelectors \ {SelSend},
          {SelMessage, SelSend, SelNotNowDiv}, {SelMessage, SelEditable}}

\* The "Not Now" dialog as the page of a login shows it.
LoginPageSelectors == LoginSelectors \cup {SelNotNowDiv}
Dialog(dom) == dom \cap {SelSaveInfo, SelNotNowButton, SelNotNowDiv}

\* ----------------------------------------------------------------- actions
Idle == [op |-> "none", layer |-> "none", outcome |-> "none", tr |-> <<>>,
         released |-> 0, prev |-> "none"]

\* A completed call of a Client method.
ClientDone(op, pre, r, released, inp) ==
    [op |-> op, layer |-> "client", outcome |-> r.outcome, ret |-> r.ret,
     err |-> r.err, tr |-> r.tr, released |-> released, pre |-> pre, inp |-> inp,
     prev |-> last.op]

Init ==
    /\ playwright = FALSE
    /\ browser = 0
    /\ page = 0
    /\ instagram_client = FALSE
    /\ inited = FALSE
    /\ live = {}
    /\ launched = 0
    /\ last = Idle

\* The caller resumes once the awaited call has completed.
Await ==
    /\ last.op # "none"
    /\ last' = Idle
    /\ UNCHANGED <<playwright, browser, page, instagram_client, inited, live, launched>>

init ==
    /\ last.op = "none"
    /\ launched < MaxLaunch
    /\ \E fault \in InitFaults :
         LET r == InitClient(Cur, fault)
         IN  /\ Becomes(r.c)
             /\ last' = ClientDone("init", Cur,
                          IF r.ok THEN Returned(Start, "None")
                          ELSE Raised(Raise(Start, r.err)), 0, [fault |-> fault])

login ==
    /\ last.op = "none"
    /\ \E username \in ArgUsernames, password \in ArgPasswords,
          envU \in EnvUsernames, envP \in EnvPasswords :
         LET pg == IF Truthy(PyOr(username, envU)) /\ Truthy(PyOr(password, envP))
                   THEN page ELSE 0
         IN  \E dom \in Pages(pg, LoginPageSelectors), f \in Faults(pg) :
               last' = ClientDone("login", Cur,
                         Login(page, username, password, envU, envP, dom, f), 0,
                         [username |-> username, password |-> password,
                          envU |-> envU, envP |-> envP, dialog |-> Dialog(dom)])
    /\ UNCHANGED <<playwright, browser, page, instagram_client, inited, live, launched>>

handle_security_checks ==
    /\ last.op = "none"
    /\ \E dom \in Pages(page, {SelSaveInfo, SelNotNowButton, SelNotNowDiv}),
          f \in Faults(page) :
         LET x == HandleSecurityChecks(Start, page, dom, f)
         IN  last' = ClientDone("_handle_security_checks", Cur,
                       IF x.st = "exc" THEN Raised(x) ELSE Returned(x, "None"), 0,
                       [dialog |-> Dialog(dom)])
    /\ UNCHANGED <<playwright, browser, page, instagram_client, inited, live, launched>>

handle_notification_popup ==
    /\ last.op = "none"
    /\ \E dom \in Pages(page, PopupSelectors), f \in Faults(page) :
         LET x == HandleNotificationPopup(Start, page, dom, f)
         IN  last' = ClientDone("_handle_notification_popup", Cur,
                       IF x.st = "exc" THEN Raised(x) ELSE Returned(x, "None"), 0,
                       [dom |-> dom, f |-> f])
    /\ UNCHANGED <<playwright, browser, page, instagram_client, inited, live, launched>>

send_direct_message ==
    /\ last.op = "none"
    /\ \E username \in Usernames, message \in Messages, media_path \in MediaPaths :
       \E dom \in Pages(page, DMPageSelectors(media_path)), f \in Faults(page) :
         last' = ClientDone("send_direct_message", Cur,
                   SendDirectMessage(page, username, message, media_path, dom, f), 0,
                   [username |-> username, message |-> message,
                    media_path |-> media_path])
    /\ UNCHANGED <<playwright, browser, page, instagram_client, inited, live, launched>>

interact_with_posts ==
    /\ last.op = "none"
    /\ \E max_posts \in {10, 20} :
         last' = ClientDone("interact_with_posts", Cur,
                   InteractWithPosts(page, max_posts), 0, [max_posts |-> max_posts])
    /\ UNCHANGED <<playwright, browser, page, instagram_client, inited, live, launched>>

scrape_followers ==
    /\ last.op = "none"
    /\ \E target_account \in Accounts, max_followers \in {50, 100} :
         last' = ClientDone("scrape_followers", Cur,
                   ScrapeFollowers(page, target_account, max_followers), 0,
                   [target_account |-> target_account, max_followers |-> max_followers])
    /\ UNCHANGED <<playwright, browser, page, instagram_client, inited, live, launched>>

generate_comment ==
    /\ last.op = "none"
    /\ \E post_caption \in Captions :
         last' = ClientDone("generate_comment", Cur,
                   GenerateComment(page, post_caption), 0,
                   [post_caption |-> post_caption])
    /\ UNCHANGED <<playwright, browser, page, instagram_client, inited, live, launched>>

\* close() may follow a close() at once: last.prev then names the first.
close ==
    /\ last.op \in {"none", "close"}
    /\ LET r == CloseClient(Cur)
       IN  /\ Becomes(r.c)
           /\ last' = ClientDone("close", Cur, Returned(Start, "None"), r.released,
                                 [none |-> TRUE])

\* The adapter constructs a Client, and launches a browser, only when it holds
\* none.
CanEnsure == instagram_client \/ launched < MaxLaunch
ImportOutcomes == IF instagram_client THEN {FALSE} ELSE BOOLEAN
InitOutcomes == IF instagram_client THEN {"none"} ELSE InitFaults
\* The page the delegated method will work on (0: there is none).
PageAfterEnsure(importFails, fault) ==
    LET e == EnsureInstagramClient(Cur, importFails, fault)
    IN  IF e.ok THEN e.c.page ELSE 0

call_instagram_send_direct_message ==
    /\ last.op = "none"
    /\ CanEnsure
    /\ \E username \in Usernames, message \in Messages, media_path \in MediaPaths,
          importFails \in ImportOutcomes, fault \in InitOutcomes :
         \E dom \in AdapterPages(PageAfterEnsure(importFails, fault)),
            f \in Faults(PageAfterEnsure(importFails, fault)) :
           LET r == instagram_send_direct_message(Cur, username, message, media_path,
                                                  importFails, fault, dom, f)
           IN  Becomes(r.c) /\ last' = r.last

call_instagram_interact_with_posts ==
    /\ last.op = "none"
    /\ CanEnsure
    /\ \E max_posts \in {10, 20}, target_account \in OptAccounts,
          importFails \in ImportOutcomes, fault \in InitOutcomes :
         \E f \in Faults(PageAfterEnsure(importFails, fault)) :
           LET r == instagram_interact_with_posts(Cur, max_posts, target_account,
                                                  importFails, fault, f)
           IN  Becomes(r.c) /\ last' = r.last

call_instagram_scrape_followers ==
    /\ last.op = "none"
    /\ CanEnsure
    /\ \E target_account \in Accounts, max_followers \in {50, 100},
          importFails \in ImportOutcomes, fault \in InitOutcomes :
         LET r == instagram_scrape_followers(Cur, target_account, max_followers,
                                             importFails, fault)
         IN  Becomes(r.c) /\ last' = r.last

call_instagram_generate_comment ==
    /\ last.op = "none"
    /\ \E post_caption \in Captions, tone \in Tones :
         LET r == instagram_generate_comment(Cur, post_caption, tone)
         IN  Becomes(r.c) /\ last' = r.last

adapter_close ==
    /\ last.op = "none"
    /\ LET r == AdapterClose(Cur)
       IN  /\ Becomes(r.c)
           /\ last' = [op |-> "adapter_close", layer |-> "adapter", outcome |-> "return",
                       tr |-> <<>>, released |-> r.released, pre |-> Cur,
                       prev |-> "none"]

Next ==
    \/ Await
    \/ init
    \/ login
    \/ handle_security_checks
    \/ handle_notification_popup
    \/ send_direct_message
    \/ interact_with_posts
    \/ scrape_followers
    \/ generate_comment
    \/ close
    \/ call_instagram_send_direct_message
    \/ call_instagram_interact_with_posts
    \/ call_instagram_scrape_followers
    \/ call_instagram_generate_comment
    \/ adapter_close

Spec == Init /\ [][Next]_vars


\* ---------------------------------------------------------------- claims
ClientCall(op) == last.layer = "client" /\ last.op = op
NoNavigation(tr) == \A i \in 1..Len(tr) : tr[i][1] # "goto"
NoFault(tr) == \A i \in 1..Len(tr) : tr[i][4] = "ok"
\* The positions of tr at which `event` was made.
At(tr, event) == {i \in 1..Len(tr) : tr[i] = event}
QueryNone(sel) == <<"query", sel, "None", "ok">>
QueryFound(sel) == <<"query", sel, "found", "ok">>
Click(sel) == <<"click", sel, "", "ok">>
PreconditionError == last.outcome = "raise" /\ last.err = "Page not initialized"
Missing(v) == v = "None" \/ v = ""

ActionOps == {"login", "send_direct_message", "interact_with_posts",
              "scrape_followers", "generate_comment"}

\* C1 (as stated): every action operation of the Client, called while the
\* session has no page, fails with the precondition error and navigates nowhere.
C1_AllActionsRequireSession ==
    (last.layer = "client" /\ last.op \in ActionOps /\ last.pre.page = 0)
        => (PreconditionError /\ NoNavigation(last.tr))

\* C1 (amended): login, send_direct_message, interact_with_posts and
\* scrape_followers, called while the session has no page, fail with the
\* precondition error and make no browser operation; generate_comment has no
\* precondition: it returns its placeholder and navigates nowhere.
C1_PageActionsRequireSession ==
    /\ (last.layer = "client" /\ last.op \in ActionOps \ {"generate_comment"}
          /\ last.pre.page = 0)
         => (PreconditionError /\ last.tr = <<>>)
    /\ ClientCall("generate_comment")
         => (last.outcome = "return" /\ last.ret = "Great post!"
               /\ NoNavigation(last.tr))

C1_Witness ==
    ClientCall("send_direct_message") /\ last.pre.page = 0 /\ last.pre.browser # 0
      /\ PreconditionError

\* C2: send_direct_message on a session with a page raises to the caller
\* when the Message button, the compose control (after the three compose
\* selectors were queried in order) or the Send button is not found, and the
\* failing query is the last browser operation of the call.
C2_RequiredControlsAbort ==
    (ClientCall("send_direct_message") /\ last.pre.page # 0) =>
      LET tr == last.tr
          n == Len(tr)
      IN  /\ \A i \in At(tr, QueryNone(SelMessage)) :
                i = n /\ last.outcome = "raise" /\ last.err = "Message button not found"
          /\ \A i \in At(tr, QueryNone(SelEditable)) :
                /\ i = n /\ i > 2
                /\ tr[i - 2] = QueryNone(SelTextarea)
                /\ tr[i - 1] = QueryNone(SelTextbox)
                /\ last.outcome = "raise" /\ last.err = "Message input not found"
          /\ \A i \in At(tr, QueryNone(SelSend)) :
                i = n /\ last.outcome = "raise" /\ last.err = "Send button not found"
          /\ last.err = "Message input not found" => tr[n] = QueryNone(SelEditable)
          /\ last.err = "Message button not found" => tr[n] = QueryNone(SelMessage)
          /\ last.err = "Send button not found" => tr[n] = QueryNone(SelSend)

C2_Witness ==
    /\ ClientCall("send_direct_message")
    /\ last.outcome = "raise" /\ last.err = "Message input not found"
    /\ At(last.tr, Click(SelMessage)) # {}


\* login was called on a session with a page and with a username and a
\* password, each given by the argument or by the environment.
LoginWithCredentials ==
    /\ ClientCall("login") /\ last.pre.page # 0
    /\ ~(Missing(last.inp.username) /\ Missing(last.inp.envU))
    /\ ~(Missing(last.inp.password) /\ Missing(last.inp.envP))

SettleAfterSubmit == <<"sleep", "5", "", "ok">>
\* An operation raised before the security-check handler was entered.
OwnFault(tr) ==
    \E i \in 1..Len(tr) : tr[i][4] = "raised" /\ At(SubSeq(tr, 1, i), SettleAfterSubmit) = {}
\* An operation raised inside the security-check handler.
HandlerFault(tr) ==
    \E i \in 1..Len(tr) : tr[i][4] = "raised" /\ At(SubSeq(tr, 1, i), SettleAfterSubmit) # {}

LoginSoftFails ==
    /\ last.outcome = "return" /\ last.ret \in {"True", "False"}
    /\ (\E sel \in {SelUsername, SelPassword, SelSubmit} :
            At(last.tr, QueryNone(sel)) # {}) => last.ret = "False"
    /\ last.ret = "True" => At(last.tr, Click(SelSubmit)) # {}

\* C3 (as stated): login with a page and credentials never raises; a missing
\* username input, password input or submit control gives False; every
\* exception of a navigation, fill, click or settle delay of the call gives False;
\* True is returned only after the submit control was clicked.
C3_EveryExceptionIsFailure ==
    LoginWithCredentials =>
        /\ LoginSoftFails
        /\ (\E i \in 1..Len(last.tr) :
                /\ last.tr[i][4] = "raised"
                /\ last.tr[i][1] \in {"goto", "fill", "click", "sleep"})
             => last.ret = "False"

\* C3 (amended): as stated, but only an exception raised before the
\* security-check handler is entered gives False; an exception raised inside
\* the handler is caught there and login still returns True.
C3_LoginSoftFails ==
    LoginWithCredentials =>
        /\ LoginSoftFails
        /\ OwnFault(last.tr) => last.ret = "False"
        /\ HandlerFault(last.tr) => last.ret = "True"

C3_Witness ==
    /\ LoginWithCredentials /\ last.ret = "False"
    /\ At(last.tr, <<"click", SelSubmit, "", "raised">>) # {}

\* C4: login on a session with a page, with the username or the password
\* missing from both the arguments and the environment, raises the
\* credentials error to the caller and makes no browser operation.
C4_MissingCredentialsRaise ==
    (ClientCall("login") /\ last.pre.page # 0 /\
       (\/ Missing(last.inp.username) /\ Missing(last.inp.envU)
        \/ Missing(last.inp.password) /\ Missing(last.inp.envP)))
      => /\ last.outcome = "raise"
         /\ last.err = "Instagram credentials not provided"
         /\ last.tr = <<>>

C4_Witness ==
    /\ ClientCall("login") /\ last.pre.page # 0
    /\ last.inp.username = "arg_user" /\ Missing(last.inp.password)
    /\ last.inp.envP = "None"
    /\ last.outcome = "raise"

\* The trace of a dismissal in which no operation raises: the strategies are
\* queried in declared order up to the first that matches, whose element is
\* clicked; all four are queried when none matches.
ExpectedDismissal(dom) ==
    LET n == Len(not_now_selectors)
        M == {i \in 1..n : not_now_selectors[i] \in dom}
        k == IF M = {} THEN 0 ELSE CHOOSE i \in M : \A j \in M : i <= j
        queries == [i \in 1..(IF k = 0 THEN n ELSE k) |->
                      IF i = k THEN QueryFound(not_now_selectors[i])
                      ELSE QueryNone(not_now_selectors[i])]
    IN  IF k = 0 THEN queries
        ELSE queries \o <<Click(not_now_selectors[k]), <<"sleep", "1.5", "", "ok">>>>

\* The operation `event`, raising: a query that raises has no result.
Failed(event) ==
    <<event[1], event[2], IF event[1] = "query" THEN "" ELSE event[3], "raised">>

\* C5: the notification-dialog dismissal queries its strategies in declared
\* order, clicks the element of the first that matches and queries none
\* after it; when none matches it clicks nothing; it never raises.
C5_OrderedFallback ==
    (ClientCall("_handle_notification_popup") /\ last.pre.page # 0) =>
      LET tr == last.tr
          E == ExpectedDismissal(last.inp.dom)
      IN  /\ last.outcome = "return"
          /\ Len(tr) <= Len(E)
          /\ \A i \in 1..Len(tr) :
                \/ tr[i] = E[i]
                \/ i = Len(tr) /\ tr[i] = Failed(E[i])
          /\ NoFault(tr) => tr = E

C5_Witness ==
    /\ ClientCall("_handle_notification_popup")
    /\ last.inp.dom = {SelNotNowXButton}
    /\ last.tr = <<QueryNone(SelNotNowButton), QueryNone(SelNotNowDiv),
                   QueryFound(SelNotNowXButton), Click(SelNotNowXButton),
                   <<"sleep", "1.5", "", "ok">>>>


AdapterActions == {"instagram_send_direct_message", "instagram_interact_with_posts",
                   "instagram_scrape_followers", "instagram_generate_comment"}
AdapterAction == last.layer = "adapter" /\ last.op \in AdapterActions

\* C6: every adapter action returns one envelope and raises nothing; when
\* the import of the Client, its init, the adapter's own navigation or the
\* Client method raised, the envelope is a failure carrying the error text,
\* and otherwise it is a success.
C6_EnvelopeAlways ==
    AdapterAction =>
      LET env == last.envelope
      IN  /\ last.outcome = "return"
          /\ env.success \in BOOLEAN
          /\ ~last.ensured =>
                (~env.success /\ env.output[2] \in {"ImportError", BrowserError})
          /\ last.call.outcome = "raise" =>
                (~env.success /\ env.output[2] = last.call.err)
          /\ ~NoFault(last.atr) => (~env.success /\ env.output[2] = BrowserError)
          /\ ~env.success => env.output[2] # ""
          /\ env.success =>
                (last.ensured /\ last.call.outcome # "raise" /\ NoFault(last.atr))

C6_Witness ==
    /\ AdapterAction /\ last.op = "instagram_interact_with_posts"
    /\ last.how = "constructed" /\ ~last.ensured
    /\ last.outcome = "return" /\ ~last.envelope.success

\* C7: close() returns with browser and page cleared, having closed the
\* browser the Client held, if any; a close() that follows a close() at once,
\* like any close() of a Client holding no browser, closes nothing and leaves
\* the state as it was.
C7_CloseIdempotent ==
    ClientCall("close") =>
        /\ last.outcome = "return"
        /\ browser = 0 /\ page = 0
        /\ last.pre.browser # 0 =>
              (last.released = last.pre.browser /\ last.pre.browser \notin live)
        /\ last.pre.browser = 0 => (last.released = 0 /\ Cur = last.pre)
        /\ last.prev = "close" => (last.released = 0 /\ Cur = last.pre)

C7_Witness ==
    /\ ClientCall("close") /\ last.prev = "close"
    /\ last.pre.inited /\ last.pre.launched > 0 /\ last.pre.live = {}

\* C8: on a session with a page, interact_with_posts and scrape_followers
\* make no browser operation, leave the state as it was and return (None and
\* the empty list); the adapter's scrape-followers, delegating to a Client
\* with a page, gives a success envelope with followers_count 0 and no
\* followers.
C8_StubsSucceed ==
    /\ (last.layer = "client" /\ last.op \in {"interact_with_posts", "scrape_followers"}
          /\ last.pre.page # 0)
         => /\ last.outcome = "return" /\ last.tr = <<>> /\ Cur = last.pre
            /\ last.op = "scrape_followers" => last.ret = <<>>
            /\ last.op = "interact_with_posts" => last.ret = "None"
    /\ (last.layer = "adapter" /\ last.op = "instagram_scrape_followers"
          /\ last.delegated /\ last.at.page # 0)
         => /\ last.outcome = "return" /\ last.envelope.success
            /\ last.call.outcome = "return" /\ last.call.tr = <<>>
            /\ last.envelope.output.followers_count = 0
            /\ last.envelope.output.followers_count = Len(last.call.ret)
            /\ last.envelope.output.followers = <<>>

C8_Witness ==
    /\ last.layer = "adapter" /\ last.op = "instagram_scrape_followers"
    /\ last.delegated /\ last.at.page # 0
    /\ last.envelope.success /\ last.envelope.output.followers_count = 0

\* C9 (as stated): whenever an adapter action delegates to a Client method,
\* the adapter holds a Client whose init has completed successfully.
C9_DelegatesToInitializedClient ==
    (last.layer = "adapter" /\ last.op \in AdapterActions /\ last.delegated)
        => (last.at.instagram_client /\ last.at.inited)

\* The dismissal of one interstitial by its button-text selector alone.
ButtonOnly(sel, dialog) ==
    IF sel \in dialog
    THEN <<QueryFound(sel), Click(sel), <<"sleep", "2", "", "ok">>>>
    ELSE <<QueryNone(sel)>>

LoginSucceeded == ClientCall("login") /\ last.outcome = "return" /\ last.ret = "True"

\* C10 (as stated): when login reports success and no operation raised, a
\* "Not Now" interstitial that any of the strategies matches (its button or
\* only its div) has been dismissed by a click.
C10_DialogDismissedByAnyStrategy ==
    (LoginSucceeded /\ NoFault(last.tr)
       /\ last.inp.dialog \cap {SelNotNowButton, SelNotNowDiv} # {})
      => \E sel \in {SelNotNowButton, SelNotNowDiv} : At(last.tr, Click(sel)) # {}

\* C10 (amended): when login reports success and no operation raised, the
\* operations after the click on the submit control are the settle delay and
\* then the security-check handler's: one query of the "Save Info" button and
\* one of the "Not Now" button, each clicked if found.  No other strategy is
\* tried: an interstitial that only the div selector matches is not dismissed.
C10_SecurityChecksButtonOnly ==
    /\ LoginSucceeded => \A i \in 1..Len(last.tr) : last.tr[i][2] # SelNotNowDiv
    /\ (LoginSucceeded /\ NoFault(last.tr)) =>
         \E i \in At(last.tr, Click(SelSubmit)) :
            /\ i < Len(last.tr)
            /\ last.tr[i + 1] = SettleAfterSubmit
            /\ SubSeq(last.tr, i + 2, Len(last.tr))
                 = ButtonOnly(SelSaveInfo, last.inp.dialog)
                     \o ButtonOnly(SelNotNowButton, last.inp.dialog)

C10_Witness ==
    /\ LoginSucceeded /\ NoFault(last.tr)
    /\ last.inp.dialog = {SelNotNowDiv}
    /\ At(last.tr, QueryNone(SelNotNowButton)) # {}
    /\ \A i \in 1..Len(last.tr) : last.tr[i][1] = "click" => last.tr[i][2] = SelSubmit

\* The step of send_direct_message an operation belongs to: 1 navigation,
\* 2 the Message button, 3 the notification interstitial, 4 the attachment,
\* 5 the compose control, 6 the Send control (0: a settle delay).
ComposeSelectors ==
    {message_input_selectors[i] : i \in 1..Len(message_input_selectors)}

Stage(event) ==
    CASE event[1] = "sleep" -> 0
      [] event[1] = "goto" -> 1
      [] event[2] = SelMessage -> 2
      [] event[2] \in PopupSelectors -> 3
      [] event[2] = SelFile -> 4
      [] event[2] \in ComposeSelectors -> 5
      [] event[2] = SelSend -> 6
      [] OTHER -> 7

SendCall == ClientCall("send_direct_message") /\ last.pre.page # 0

\* C11: the operations of a send_direct_message call are made in the order
\* navigate to the profile, click Message, dismiss the interstitial, attach,
\* fill the compose control, click Send.  The attachment operations are made
\* only when media_path is supplied.  The Send control is clicked only after
\* the compose control has been filled with the message in the same call, and
\* a call that returns has ended with that click.  When media_path is supplied
\* and no file input is found, the call goes on to look for the compose
\* control and can only fail at a later step.
C11_FixedOrderBestEffortAttach ==
    SendCall =>
      /\ \A i, j \in 1..Len(last.tr) :
            (i < j /\ Stage(last.tr[i]) # 0 /\ Stage(last.tr[j]) # 0)
              => Stage(last.tr[i]) <= Stage(last.tr[j])
      /\ \A i \in 1..Len(last.tr) : Stage(last.tr[i]) \in 0..6
      /\ last.tr # <<>> =>
            /\ last.tr[1][1] = "goto"
            /\ last.tr[1][2] = last.inp.username
      /\ \A i \in 1..Len(last.tr) :
            Stage(last.tr[i]) > 2 => \E j \in At(last.tr, Click(SelMessage)) : j < i
      /\ \A i \in 1..Len(last.tr) :
            Stage(last.tr[i]) = 4 => Truthy(last.inp.media_path)
      /\ \A i \in 1..Len(last.tr) :
            last.tr[i][1] = "set_input_files" =>
               /\ last.tr[i][3] = last.inp.media_path
               /\ \E j \in At(last.tr, QueryFound(SelFile)) : j < i
      /\ \A i \in 1..Len(last.tr) :
            (last.tr[i][1] = "click" /\ last.tr[i][2] = SelSend) =>
               \E j \in 1..(i - 1) :
                  /\ last.tr[j][1] = "fill" /\ last.tr[j][4] = "ok"
                  /\ last.tr[j][2] \in ComposeSelectors
                  /\ last.tr[j][3] = last.inp.message
      /\ last.outcome = "return" => last.tr[Len(last.tr)] = Click(SelSend)
      /\ \A i \in At(last.tr, QueryNone(SelFile)) :
            /\ i < Len(last.tr)
            /\ last.tr[i + 1][1] = "query"
            /\ last.tr[i + 1][2] = message_input_selectors[1]
            /\ last.outcome = "raise" =>
                  last.err \in {BrowserError, "Message input not found",
                                "Send button not found"}

C11_Witness ==
    /\ SendCall /\ last.outcome = "return"
    /\ Truthy(last.inp.media_path)
    /\ At(last.tr, QueryNone(SelFile)) # {}
    /\ \E i \in 1..Len(last.tr) : last.tr[i][1] = "fill"
    /\ last.tr[Len(last.tr)] = Click(SelSend)

\* C12: a browser process that is running and that the Client does not refer
\* to is not released by any step.  A call of init that launches a browser
\* while the Client still holds one leaves the earlier browser running and
\* makes the Client refer to the new one, so the earlier browser is never
\* released afterwards; a close releases at most the browser the Client
\* refers to, which is the one launched last.
C12_FirstBrowserNeverReleased ==
    [][ /\ \A b \in live : b # browser => b \in live'
        /\ (last'.layer = "client" /\ last'.op = "init" /\ launched' # launched
               /\ browser \in live)
             => (browser \in live' /\ browser' \notin {0, browser})
        /\ (last'.layer = "client" /\ last'.op = "close")
             => (live \ live') \subseteq ({browser} \cap {launched}) ]_vars

C12_Witness ==
    /\ ClientCall("init")
    /\ last.pre.browser \in last.pre.live
    /\ browser \notin {0, last.pre.browser}
    /\ {last.pre.browser, browser} \subseteq live

====
